---- MODULE Spec2Model ----
(***************************************************************************)
(* UfoSightings.etl(): read a CSV of sighting records, sort it, repair and *)
(* parse the timestamps, drop rows with non-numeric numeric fields,        *)
(* estimate VARCHAR widths and append the rows to a MySQL table.           *)
(*                                                                         *)
(* A cell is a sequence: the raw text of a field as a sequence of code     *)
(* points, or after a cast a one-element sequence holding the value.  The  *)
(* empty sequence is the null cell (NaN / NaT): pandas reads an empty CSV  *)
(* field as NaN whatever dtype is asked for.                               *)
(***************************************************************************)
EXTENDS Integers, Sequences, FiniteSets, TLC

VARIABLES pc, run, file, df, widths, table, table0, err, stages

vars == <<pc, run, file, df, widths, table, table0, err, stages>>

----------------------------------------------------------------------------
(* Bounds of the model. *)

MaxRuns == 2
MaxRows == 2
MaxStrLen == 3
MaxCleanRows == 2
MaxWidthRows == 3
MaxWidthLen == 10

----------------------------------------------------------------------------
(* Text. *)

Space == 32
Slash == 47
Colon == 58
Zero == 48
Minus == 45
Dot == 46

Digit(d) == Zero + d

IsDigit(c) == c >= Zero /\ c <= Zero + 9

TwoDigits(n) == <<Digit(n \div 10), Digit(n % 10)>>

FourDigits(n) == <<Digit(n \div 1000), Digit((n \div 100) % 10), Digit((n \div 10) % 10), Digit(n % 10)>>

\* 'MM/DD/YYYY' and 'MM/DD/YYYY HH:MM' as the source file writes them.
DateText(mo, dd, yyyy) == TwoDigits(mo) \o <<Slash>> \o TwoDigits(dd) \o <<Slash>> \o FourDigits(yyyy)

DatetimeText(mo, dd, yyyy, hh, mi) == DateText(mo, dd, yyyy) \o <<Space>> \o TwoDigits(hh) \o <<Colon>> \o TwoDigits(mi)

\* a text of n characters
Text(n) == [i \in 1..n |-> Zero + 72]

IsNull(cell) == cell = <<>>

\* the literal '24:00' and its replacement '00:00'
Lit2400 == TwoDigits(24) \o <<Colon>> \o TwoDigits(0)

Lit0000 == TwoDigits(0) \o <<Colon>> \o TwoDigits(0)

StartsWithAt(s, i, pat) == i + Len(pat) - 1 <= Len(s) /\ SubSeq(s, i, i + Len(pat) - 1) = pat

\* Series.str.contains(pat) on one non-null cell
StrContains(s, pat) == \E i \in 1..Len(s) : StartsWithAt(s, i, pat)

RECURSIVE ReplaceFrom(_, _, _, _)
ReplaceFrom(s, i, pat, rep) ==
    IF i > Len(s) THEN <<>>
    ELSE IF StartsWithAt(s, i, pat) THEN rep \o ReplaceFrom(s, i + Len(pat), pat, rep)
    ELSE <<s[i]>> \o ReplaceFrom(s, i + 1, pat, rep)

\* Series.str.replace(pat, rep) on one non-null cell: every occurrence, left to right
StrReplace(s, pat, rep) == ReplaceFrom(s, 1, pat, rep)

RECURSIVE LexLessFrom(_, _, _)
LexLessFrom(a, b, i) ==
    IF i > Len(b) THEN FALSE
    ELSE IF i > Len(a) THEN TRUE
    ELSE IF a[i] # b[i] THEN a[i] < b[i]
    ELSE LexLessFrom(a, b, i + 1)

\* Python's str < str, by code point
LexLess(a, b) == LexLessFrom(a, b, 1)

----------------------------------------------------------------------------
(* Calendar: what pd.to_datetime and Timestamp + timedelta compute.  A     *)
(* Timestamp is kept as minutes since 1970-01-01 00:00.                    *)

EpochYear == 1970
MinutesPerDay == 1440
MinutesPerHour == 60

IsLeap(y) == (y % 4 = 0 /\ y % 100 # 0) \/ y % 400 = 0

DaysInMonth(y, m) ==
    IF m = 2 THEN (IF IsLeap(y) THEN 29 ELSE 28)
    ELSE IF m \in {4, 6, 9, 11} THEN 30 ELSE 31

LeapsBefore(y) == ((y - 1) \div 4) - ((y - 1) \div 100) + ((y - 1) \div 400)

DaysBeforeYear(y) == 365 * (y - EpochYear) + LeapsBefore(y) - LeapsBefore(EpochYear)

RECURSIVE DaysBeforeMonth(_, _)
DaysBeforeMonth(y, m) == IF m = 1 THEN 0 ELSE DaysBeforeMonth(y, m - 1) + DaysInMonth(y, m - 1)

DaysFromCivil(y, m, d) == DaysBeforeYear(y) + DaysBeforeMonth(y, m) + (d - 1)

Num2(s, i) == (s[i] - Zero) * 10 + (s[i + 1] - Zero)

Num4(s, i) == Num2(s, i) * 100 + Num2(s, i + 2)

AllDigits(s, idx) == \A i \in idx : IsDigit(s[i])

\* strptime(s, '%m/%d/%Y'): the fields of a date text, or "fail"
DateShape(s) ==
    /\ Len(s) >= 10
    /\ AllDigits(s, {1, 2, 4, 5, 7, 8, 9, 10})
    /\ s[3] = Slash /\ s[6] = Slash

DateFieldsOk(s) ==
    /\ DateShape(s)
    /\ Num2(s, 1) \in 1..12
    /\ Num2(s, 4) >= 1
    /\ Num2(s, 4) <= DaysInMonth(Num4(s, 7), Num2(s, 1))

\* pd.to_datetime(cell, format='%m/%d/%Y'): the whole text has to match
DateParses(s) == Len(s) = 10 /\ DateFieldsOk(s)

\* pd.to_datetime(cell, format='%m/%d/%Y %H:%M')
DatetimeParses(s) ==
    /\ Len(s) = 16
    /\ DateFieldsOk(s)
    /\ s[11] = Space /\ s[14] = Colon
    /\ AllDigits(s, {12, 13, 15, 16})
    /\ Num2(s, 12) \in 0..23
    /\ Num2(s, 15) \in 0..59

DateValue(s) == DaysFromCivil(Num4(s, 7), Num2(s, 1), Num2(s, 4)) * MinutesPerDay

DatetimeValue(s) == DateValue(s) + Num2(s, 12) * MinutesPerHour + Num2(s, 15)

----------------------------------------------------------------------------
(* float(): the numerals the sources of this model hold are an optional    *)
(* sign, digits and at most one point.  A float is kept in hundredths.     *)

Hundred == 100

Unsigned(s) == IF s # <<>> /\ Head(s) = Minus THEN Tail(s) ELSE s

DotsOf(s) == {i \in 1..Len(s) : s[i] = Dot}

FloatParses(s) ==
    LET u == Unsigned(s) IN
    /\ \A i \in 1..Len(u) : IsDigit(u[i]) \/ u[i] = Dot
    /\ Cardinality(DotsOf(u)) <= 1
    /\ \E i \in 1..Len(u) : IsDigit(u[i])

RECURSIVE DigitsValue(_)
DigitsValue(s) == IF s = <<>> THEN 0 ELSE DigitsValue(SubSeq(s, 1, Len(s) - 1)) * 10 + (s[Len(s)] - Zero)

FloatValue(s) ==
    LET u == Unsigned(s)
        dot == IF DotsOf(u) = {} THEN Len(u) + 1 ELSE CHOOSE i \in DotsOf(u) : TRUE
        whole == DigitsValue(SubSeq(u, 1, dot - 1))
        frac == SubSeq(u, dot + 1, Len(u)) \o <<Zero, Zero>>
        mag == whole * Hundred + DigitsValue(SubSeq(frac, 1, 2))
    IN IF u = s THEN mag ELSE 0 - mag

\* _is_float(col) on a cell of an object column: float(nan) does not raise
_is_float(cell) == IsNull(cell) \/ FloatParses(cell)

----------------------------------------------------------------------------
(* Frames. *)

TextCols == {"city", "state", "country", "shape", "duration (hours/min)", "comments"}

NumCols == {"duration (seconds)", "latitude", "longitude"}

Columns == {"datetime", "date posted"} \cup TextCols \cup NumCols

NoFrame == [padded |-> {}, dtype |-> [c \in NumCols |-> "object"], rows |-> <<>>]

Raise(e) == [ok |-> FALSE, err |-> e, frame |-> NoFrame]

Return(fr) == [ok |-> TRUE, err |-> "none", frame |-> fr]

\* what read_csv infers for a numeric column the dtype map does not name
InferDtype(cells) ==
    IF cells = <<>> THEN "object"
    ELSE IF \A i \in 1..Len(cells) : IsNull(cells[i]) \/ FloatParses(cells[i])
    THEN (IF \A i \in 1..Len(cells) : ~IsNull(cells[i]) /\ DotsOf(cells[i]) = {}
          THEN "int64" ELSE "float64")
    ELSE "object"

ColumnOf(rows, c) == [i \in 1..Len(rows) |-> rows[i][c]]

CastFloat(cell) == IF IsNull(cell) THEN <<>> ELSE <<FloatValue(cell)>>

\* _extract_csv: the dtype map is keyed by the bare names, so a column whose
\* header carries whitespace is not named by it and gets an inferred dtype
_extract_csv(f) ==
    LET dt == [c \in NumCols |-> IF c \in f.padded THEN InferDtype(ColumnOf(f.rows, c)) ELSE "object"]
    IN [padded |-> f.padded,
        dtype |-> dt,
        rows |-> [i \in 1..Len(f.rows) |->
                    [c \in Columns |-> IF c \in NumCols /\ dt[c] # "object"
                                       THEN CastFloat(f.rows[i][c]) ELSE f.rows[i][c]]]]

\* the order of sort_values(by='datetime') on the raw text: nulls last
TextBefore(a, b) == IF IsNull(a) THEN FALSE ELSE IF IsNull(b) THEN TRUE ELSE LexLess(a, b)

\* the orders sort_values may leave the rows in (the default sort is not stable)
SortOrders(rows) ==
    {p \in Permutations(1..Len(rows)) :
        \A i \in 1..(Len(rows) - 1) : ~TextBefore(rows[p[i + 1]]["datetime"], rows[p[i]]["datetime"])}

Reorder(rows, p) == [i \in 1..Len(rows) |-> rows[p[i]]]

\* the flag taken from the rewritten text instead of the text as read
RepairedCellLate(cell) ==
    LET replaced == StrReplace(cell, Lit2400, Lit0000)
        check == StrContains(replaced, Lit2400)
    IN <<DatetimeValue(replaced) + (IF check THEN 1 ELSE 0) * MinutesPerDay>>

\* lines 39-42 for one row
RepairedCell(cell) ==
    LET replaced == StrReplace(cell, Lit2400, Lit0000)
        check == StrContains(cell, Lit2400)
    IN <<DatetimeValue(replaced) + (IF check THEN 1 ELSE 0) * MinutesPerDay>>

_transform_datetime_col(rows) ==
    IF \E i \in 1..Len(rows) : ~DatetimeParses(StrReplace(rows[i]["datetime"], Lit2400, Lit0000))
    THEN Raise("ValueError")
    ELSE Return([NoFrame EXCEPT !.rows =
                    [i \in 1..Len(rows) |-> [rows[i] EXCEPT !["datetime"] = RepairedCell(@)]]])

\* pd.to_datetime(df['date posted'], format='%m/%d/%Y'): a null cell becomes NaT
CastDatePosted(rows) ==
    IF \E i \in 1..Len(rows) : ~IsNull(rows[i]["date posted"]) /\ ~DateParses(rows[i]["date posted"])
    THEN Raise("ValueError")
    ELSE Return([NoFrame EXCEPT !.rows =
                    [i \in 1..Len(rows) |->
                        [rows[i] EXCEPT !["date posted"] = IF IsNull(@) THEN <<>> ELSE <<DateValue(@)>>]]])

\* df.astype({c: float}) on the rows of a column of the dtype given
AsFloat(rows, c, dtype) ==
    [i \in 1..Len(rows) |-> [rows[i] EXCEPT ![c] = IF dtype = "int64" THEN @ ELSE CastFloat(@)]]

\* lines 66-71, 74-76, 79-81: filter one numeric column and cast it.  On a
\* frame with no rows apply() gives an empty object Series, df[...] then selects
\* no columns and astype raises KeyError.
FilterFloat(fr, c) ==
    IF fr.dtype[c] = "float64" THEN Return(fr)
    ELSE IF fr.rows = <<>> THEN Raise("KeyError")
    ELSE LET Keep(r) == fr.dtype[c] = "int64" \/ _is_float(r[c])
         IN Return([fr EXCEPT !.dtype[c] = "float64",
                              !.rows = AsFloat(SelectSeq(fr.rows, Keep), c, fr.dtype[c])])

\* the rows a statement has made, put into the frame it worked on
WithRows(fr, t) == IF t.ok THEN Return([fr EXCEPT !.rows = t.frame.rows]) ELSE t

\* the statements of the try block, each skipped once one has raised
CastDatetime(r) == IF r.ok THEN WithRows(r.frame, _transform_datetime_col(r.frame.rows)) ELSE r

CastPosted(r) == IF r.ok THEN WithRows(r.frame, CastDatePosted(r.frame.rows)) ELSE r

CastNumber(r, c) == IF r.ok THEN FilterFloat(r.frame, c) ELSE r

_clean_file(df0) ==
    CastNumber(CastNumber(CastNumber(CastPosted(CastDatetime(Return([df0 EXCEPT !.padded = {}]))),
                                     "duration (seconds)"), "latitude"), "longitude")

\* _transform_csv: the sort names the column 'datetime' before the headers are trimmed
_transform_csv(df0, p) ==
    IF "datetime" \in df0.padded THEN Raise("KeyError")
    ELSE _clean_file([df0 EXCEPT !.rows = Reorder(df0.rows, p)])

----------------------------------------------------------------------------
(* _calc_max_length: math.ceil(float(max_len) * 1.2) in IEEE double        *)
(* arithmetic.  The double nearest 1.2 is Mant * 2^-52 with                *)
(* Mant = 0x13333333333333, kept here in limbs of 24 bits; the product is  *)
(* rounded to 53 significant bits, ties to even, and then rounded up to an *)
(* integer.                                                                *)

LimbBase == 16777216
MantLow == 3355443
MantMid == 3355443
MantHigh == 19
FracUnits == 16
KeptBits == 5

RECURSIVE BitLen(_)
BitLen(n) == IF n = 0 THEN 0 ELSE 1 + BitLen(n \div 2)

\* the exact product m * Mant as limbs <<low, mid, high>>
ExactProduct(m) ==
    LET p0 == m * MantLow
        p1 == m * MantMid + (p0 \div LimbBase)
        p2 == m * MantHigh + (p1 \div LimbBase)
    IN <<p0 % LimbBase, p1 % LimbBase, p2>>

\* round the product to the 53 bits a double keeps
RoundToDouble(p) ==
    LET s == BitLen(p[3]) - KeptBits
        unit == 2 ^ s
        rem == p[1] % unit
        odd == (p[1] \div unit) % 2 = 1
        up == s > 0 /\ (2 * rem > unit \/ (2 * rem = unit /\ odd))
        q0 == p[1] - rem + (IF up THEN unit ELSE 0)
        q1 == p[2] + (q0 \div LimbBase)
    IN <<q0 % LimbBase, q1 % LimbBase, p[3] + (q1 \div LimbBase)>>

\* math.floor in the place of math.ceil
FloorOfDouble(q) == q[3] \div FracUnits

\* math.ceil of the double whose limbs are q (the value is q * 2^-52)
CeilOfDouble(q) == (q[3] \div FracUnits) + (IF q[1] = 0 /\ q[2] = 0 /\ q[3] % FracUnits = 0 THEN 0 ELSE 1)

TimesBuffer(m) == RoundToDouble(ExactProduct(m))

\* Series.str.len() of the non-null cells of a column
Lengths(rows, c) == {Len(rows[i][c]) : i \in {j \in 1..Len(rows) : ~IsNull(rows[j][c])}}

MaxOf(S) == CHOOSE m \in S : \A n \in S : n <= m

MinOf(S) == CHOOSE m \in S : \A n \in S : m <= n

\* min() in the place of max()
_calc_min_length(rows, c) ==
    IF Lengths(rows, c) = {} THEN [ok |-> FALSE, len |-> 0]
    ELSE [ok |-> TRUE, len |-> CeilOfDouble(TimesBuffer(MinOf(Lengths(rows, c))))]

\* max() of no lengths is NaN, and math.ceil(nan) raises ValueError
_calc_max_length(rows, c) ==
    IF Lengths(rows, c) = {} THEN [ok |-> FALSE, len |-> 0]
    ELSE [ok |-> TRUE, len |-> CeilOfDouble(TimesBuffer(MaxOf(Lengths(rows, c))))]

----------------------------------------------------------------------------
(* The destination table. *)

NoWidths == [c \in TextCols |-> 0]

NoTable == [exists |-> FALSE, widths |-> NoWidths, rows |-> <<>>]

\* meta.create_all(sql_engine): CREATE TABLE only when the table is not there
create_all(t, w) == IF t.exists THEN t ELSE [exists |-> TRUE, widths |-> w, rows |-> <<>>]

Truncate(cell, n) == IF Len(cell) > n THEN SubSeq(cell, 1, n) ELSE cell

\* a row as the VARCHAR(n) columns keep it when the server does not reject it
StoreRow(r, w) == [c \in Columns |-> IF c \in TextCols THEN Truncate(r[c], w[c]) ELSE r[c]]

StoreRows(rows, w) == [i \in 1..Len(rows) |-> StoreRow(rows[i], w)]

\* if_exists='replace' in the place of 'append'
to_sql_replace(t, rows) == [t EXCEPT !.rows = StoreRows(rows, t.widths)]

\* df.to_sql(table_name, engine, if_exists='append', index=False)
to_sql(t, rows) == [t EXCEPT !.rows = @ \o StoreRows(rows, t.widths)]

----------------------------------------------------------------------------
(* Source files. *)

NoFile == [readable |-> FALSE, padded |-> {}, rows |-> <<>>]

GoodNumber == <<Digit(3), Digit(7), Dot, Digit(5)>>

WholeNumber == <<Minus, Digit(9), Digit(7)>>

\* a digit and a backtick
BadNumber == <<Digit(2), Zero + 48>>

GoodPosted == DateText(1, 20, 2020)

BadPosted == DateText(13, 40, 2020)

BaseRow ==
    [c \in Columns |->
        CASE c = "datetime" -> DatetimeText(1, 15, 2020, 12, 30)
          [] c = "date posted" -> GoodPosted
          [] c = "longitude" -> WholeNumber
          [] c \in {"duration (seconds)", "latitude"} -> GoodNumber
          [] OTHER -> Text(1)]

FilesOf(rows, n) == UNION {[1..k -> rows] : k \in 0..n}

SourcesOf(rows, n, pads) ==
    {NoFile} \cup {[readable |-> TRUE, padded |-> pd, rows |-> rs] : pd \in pads, rs \in FilesOf(rows, n)}

\* rows that differ in the length of 'city' (none at all for 0), one minute apart
LoadRow(n) == [BaseRow EXCEPT !["city"] = Text(n), !["datetime"] = DatetimeText(1, 15, 2020, 12, 10 + n)]

LoadRows == {LoadRow(n) : n \in {0, 1, MaxStrLen}} \cup {[BaseRow EXCEPT !["date posted"] = BadPosted]}

LoadSources == SourcesOf(LoadRows, MaxRows, {{}})

\* rows that differ in one field at a time: the timestamp, the posting date,
\* or the three numeric fields (numeral, malformed text, empty)
CleanDatetimes ==
    {DatetimeText(1, 1, 2021, 5, 0), DatetimeText(6, 1, 2020, 12, 0), DatetimeText(1, 1, 2021, 4, 0),
     DatetimeText(12, 31, 2020, 24, 0), DatetimeText(1, 15, 2020, 24, 30)}

CleanRows ==
    {[BaseRow EXCEPT !["datetime"] = t] : t \in CleanDatetimes}
    \cup {[BaseRow EXCEPT !["date posted"] = d] : d \in {BadPosted, <<>>}}
    \cup {[BaseRow EXCEPT !["duration (seconds)"] = a, !["latitude"] = b, !["longitude"] = c] :
            a \in {GoodNumber, BadNumber, <<>>}, b \in {GoodNumber, BadNumber, <<>>},
            c \in {WholeNumber, BadNumber, <<>>}}

CleanSources == SourcesOf(CleanRows, MaxCleanRows, {{}, {"datetime"}, {"longitude"}})

\* one row per file, over month ends, leap days and the times around midnight
DatetimeRows ==
    {[BaseRow EXCEPT !["datetime"] = DatetimeText(mo, dd, yyyy, t[1], t[2])] :
        mo \in 1..12, dd \in {1, 15, 28, 29, 30, 31}, yyyy \in {2000, 2019, 2024, 2100},
        t \in {<<0, 0>>, <<23, 59>>, <<24, 0>>, <<24, 30>>, <<12, 24>>}}

DatetimeSources == {NoFile} \cup {[readable |-> TRUE, padded |-> {}, rows |-> <<r>>] : r \in DatetimeRows}

\* rows that differ in the length of 'comments' (none at all for 0); the longer
\* the text the earlier the row, and a file lists its rows shortest first, so
\* that the sort reverses every file
WidthRow(n) == [BaseRow EXCEPT !["comments"] = Text(n), !["datetime"] = DatetimeText(1, 15, 2020, 12, 59 - n)]

ShortestFirst(f) == \A i \in 1..(Len(f.rows) - 1) : Len(f.rows[i]["comments"]) <= Len(f.rows[i + 1]["comments"])

WidthSources == {f \in SourcesOf({WidthRow(n) : n \in 0..MaxWidthLen}, MaxWidthRows, {{}}) : ShortestFirst(f)}

----------------------------------------------------------------------------
(* etl(): one step per stage; an exception of a stage is caught and logged *)
(* by etl() itself (line 196), which ends the run.                         *)

\* a failed transform that is logged without ending the run
LogAndContinue(e, stage) ==
    /\ err' = e
    /\ pc' = IF stage = "transform" THEN "transformed" ELSE "done"
    /\ stages' = Append(stages, stage)

Log(e, stage) ==
    /\ err' = e
    /\ pc' = "done"
    /\ stages' = Append(stages, stage)

Extract(Sources) ==
    /\ pc = "idle"
    /\ \E f \in Sources :
        /\ f.readable
        /\ file' = f
        /\ df' = _extract_csv(f)
    /\ pc' = "extracted"
    /\ stages' = Append(stages, "extract")
    /\ UNCHANGED <<run, widths, table, table0, err>>

ExtractFail(Sources) ==
    /\ pc = "idle"
    /\ \E f \in Sources :
        /\ ~f.readable
        /\ file' = f
    /\ Log("FileNotFoundError", "extract")
    /\ UNCHANGED <<run, df, widths, table, table0>>

Transform ==
    /\ pc = "extracted"
    /\ \E p \in SortOrders(df.rows) : \E r \in {_transform_csv(df, p)} :
        /\ r.ok
        /\ df' = r.frame
    /\ pc' = "transformed"
    /\ stages' = Append(stages, "transform")
    /\ UNCHANGED <<run, file, widths, table, table0, err>>

TransformFail ==
    /\ pc = "extracted"
    /\ \E p \in SortOrders(df.rows) : \E r \in {_transform_csv(df, p)} :
        /\ ~r.ok
        /\ Log(r.err, "transform")
    /\ UNCHANGED <<run, file, df, widths, table, table0>>

CalcWidths ==
    /\ pc = "transformed"
    /\ \A c \in TextCols : _calc_max_length(df.rows, c).ok
    /\ widths' = [c \in TextCols |-> _calc_max_length(df.rows, c).len]
    /\ pc' = "estimated"
    /\ stages' = Append(stages, "widths")
    /\ UNCHANGED <<run, file, df, table, table0, err>>

CalcWidthsFail ==
    /\ pc = "transformed"
    /\ \E c \in TextCols : ~_calc_max_length(df.rows, c).ok
    /\ Log("ValueError", "widths")
    /\ UNCHANGED <<run, file, df, widths, table, table0>>

CreateTable ==
    /\ pc = "estimated"
    /\ table' = create_all(table, widths)
    /\ pc' = "created"
    /\ stages' = Append(stages, "create")
    /\ UNCHANGED <<run, file, df, widths, table0, err>>

\* the server cannot be reached or refuses the statement
CreateFail ==
    /\ pc = "estimated"
    /\ Log("OperationalError", "create")
    /\ UNCHANGED <<run, file, df, widths, table, table0>>

ToSql ==
    /\ pc = "created"
    /\ table' = to_sql(table, df.rows)
    /\ pc' = "done"
    /\ stages' = Append(stages, "insert")
    /\ UNCHANGED <<run, file, df, widths, table0, err>>

\* the server rejects the INSERT at some row (a value out of the range of its
\* column, a text longer than its column under a strict sql_mode, a lost
\* connection).  The CREATE TABLE before it stays; whether the rows before the
\* failing one stay is up to the store: a transactional engine rolls them
\* back, another keeps them.
ToSqlFail ==
    /\ pc = "created"
    /\ \E k \in 0..(Len(df.rows) - 1) :
        table' = to_sql(table, SubSeq(df.rows, 1, k))
    /\ Log("DataError", "insert")
    /\ UNCHANGED <<run, file, df, widths, table0>>

\* the program is run again against the same table name
NextRun ==
    /\ pc = "done"
    /\ run < MaxRuns
    /\ run' = run + 1
    /\ pc' = "idle"
    /\ file' = NoFile
    /\ df' = NoFrame
    /\ widths' = NoWidths
    /\ table0' = table
    /\ err' = "none"
    /\ stages' = <<>>
    /\ UNCHANGED table

Init ==
    /\ pc = "idle"
    /\ run = 1
    /\ file = NoFile
    /\ df = NoFrame
    /\ widths = NoWidths
    /\ table = NoTable
    /\ table0 = NoTable
    /\ err = "none"
    /\ stages = <<>>

Load == CalcWidths \/ CalcWidthsFail \/ CreateTable \/ CreateFail \/ ToSql \/ ToSqlFail

Next == Extract(LoadSources) \/ ExtractFail(LoadSources) \/ Transform \/ TransformFail \/ Load \/ NextRun

Spec == Init /\ [][Next]_vars

\* one run over sources that differ in the validated fields and in the headers
NextClean == Extract(CleanSources) \/ ExtractFail(CleanSources) \/ Transform \/ TransformFail \/ Load

SpecClean == Init /\ [][NextClean]_vars

\* the read and the transform of single rows over the calendar
NextDatetime == Extract(DatetimeSources) \/ ExtractFail(DatetimeSources) \/ Transform \/ TransformFail

SpecDatetime == Init /\ [][NextDatetime]_vars

\* one run up to the width estimate over the lengths of 'comments'
NextWidth ==
    \/ Extract(WidthSources) \/ ExtractFail(WidthSources)
    \/ Transform \/ TransformFail \/ CalcWidths \/ CalcWidthsFail

SpecWidth == Init /\ [][NextWidth]_vars

----------------------------------------------------------------------------
(* What the properties below speak of. *)

Written(t) == [mo |-> Num2(t, 1), dd |-> Num2(t, 4), yyyy |-> Num4(t, 7), hh |-> Num2(t, 12), mi |-> Num2(t, 15)]

\* a calendar date with a time of day, or with the hour token 24:00
WellFormed(t) ==
    /\ Len(t) = 16
    /\ DateFieldsOk(t)
    /\ t[11] = Space /\ t[14] = Colon
    /\ AllDigits(t, {12, 13, 15, 16})
    /\ \/ Written(t).hh \in 0..23 /\ Written(t).mi \in 0..59
       \/ Written(t).hh = 24 /\ Written(t).mi = 0

NextCalendarDay(y, m, d) ==
    IF d < DaysInMonth(y, m) THEN [yyyy |-> y, mo |-> m, dd |-> d + 1]
    ELSE IF m < 12 THEN [yyyy |-> y, mo |-> m + 1, dd |-> 1]
    ELSE [yyyy |-> y + 1, mo |-> 1, dd |-> 1]

\* the calendar fields of a Timestamp
Civil(v) ==
    LET n == v \div MinutesPerDay
        y == CHOOSE k \in EpochYear..(EpochYear + 250) : DaysBeforeYear(k) <= n /\ n < DaysBeforeYear(k + 1)
        r == n - DaysBeforeYear(y)
        m == CHOOSE k \in 1..12 : DaysBeforeMonth(y, k) <= r /\ r < DaysBeforeMonth(y, k) + DaysInMonth(y, k)
    IN [yyyy |-> y, mo |-> m, dd |-> r - DaysBeforeMonth(y, m) + 1,
        hh |-> (v % MinutesPerDay) \div MinutesPerHour, mi |-> v % MinutesPerHour]

\* the canonical value v is what the text t stands for
Repaired(t, v) ==
    LET w == Written(t)
        nd == NextCalendarDay(w.yyyy, w.mo, w.dd)
    IN IF StrContains(t, Lit2400)
       THEN Civil(v) = [yyyy |-> nd.yyyy, mo |-> nd.mo, dd |-> nd.dd, hh |-> 0, mi |-> 0]
       ELSE Civil(v) = w

IsPrefix(s, t) == Len(s) <= Len(t) /\ \A i \in 1..Len(s) : s[i] = t[i]

StageOrder == <<"extract", "transform", "widths", "create", "insert">>

FailedAt(stage) == pc = "done" /\ err # "none" /\ stages # <<>> /\ stages[Len(stages)] = stage

Succeeded == pc = "done" /\ err = "none"

MaxLen(rows, c) == MaxOf(Lengths(rows, c))

\* the least integer >= 6 m / 5
CeilSixFifths(m) == (6 * m + 4) \div 5

RealNumber(cell) == ~IsNull(cell) /\ FloatParses(cell)

Validated == {"datetime", "date posted"} \cup NumCols

----------------------------------------------------------------------------
(* Properties. *)

\* C1: a well-formed 'MM/DD/YYYY HH:MM' text is transformed, and its
\* canonical datetime is 00:00 of the next calendar day when the text
\* contains '24:00' and the written date and time otherwise; no canonical
\* datetime carries hour 24.
C1_Repair24 ==
    /\ pc = "transformed" =>
          /\ Len(df.rows) = Len(file.rows)
          /\ \A i \in 1..Len(df.rows) :
                /\ \E j \in 1..Len(file.rows) : Repaired(file.rows[j]["datetime"], df.rows[i]["datetime"][1])
                /\ Civil(df.rows[i]["datetime"][1]).hh \in 0..23
    /\ FailedAt("transform") /\ file.readable => \E j \in 1..Len(file.rows) : ~WellFormed(file.rows[j]["datetime"])

\* C1 (witness): 12/31/2019 24:00 has become 2020-01-01 00:00
C1_YearEndWitness ==
    /\ pc = "transformed"
    /\ file.rows = <<[BaseRow EXCEPT !["datetime"] = DatetimeText(12, 31, 2019, 24, 0)]>>
    /\ Civil(df.rows[1]["datetime"][1]) = [yyyy |-> 2020, mo |-> 1, dd |-> 1, hh |-> 0, mi |-> 0]

\* C2 (as claimed): when the timestamps parse, the cleaned output holds
\* exactly the rows whose three numeric fields each parse as a real number.
C2_KeptIffThreeRealNumbers ==
    pc = "transformed" =>
        Len(df.rows) = Cardinality({i \in 1..Len(file.rows) : \A c \in NumCols : RealNumber(file.rows[i][c])})

\* what the filters do: a row is kept iff none of its three numeric fields
\* holds text that float() rejects; an empty field is kept
NumericDropRule ==
    pc = "transformed" =>
        Len(df.rows) = Cardinality({i \in 1..Len(file.rows) :
                                      \A c \in NumCols : IsNull(file.rows[i][c]) \/ FloatParses(file.rows[i][c])})

UnparsedDate(r) ==
    \/ ~DatetimeParses(StrReplace(r["datetime"], Lit2400, Lit0000))
    \/ ~DateParses(r["date posted"])

\* C3 (as claimed): a row whose datetime or date_posted does not parse
\* aborts the run in the transform, and no row of the batch is loaded.
C3_UnparsedDateIsFatal ==
    Len(stages) >= 2 /\ (\E i \in 1..Len(file.rows) : UnparsedDate(file.rows[i]))
        => FailedAt("transform") /\ table = table0

\* the same for text that is there and malformed
MalformedDateIsFatal ==
    Len(stages) >= 2 /\ (\E i \in 1..Len(file.rows) :
                            UnparsedDate(file.rows[i]) /\ ~IsNull(file.rows[i]["date posted"]))
        => FailedAt("transform") /\ table = table0

\* C4 (as claimed): the cleaned output is in ascending order of the
\* canonical datetime.
C4_AscendingCanonical ==
    pc = "transformed" =>
        \A i, j \in 1..Len(df.rows) : i < j => df.rows[i]["datetime"][1] <= df.rows[j]["datetime"][1]

\* C5: the table a run finds keeps its schema and its rows, create_all on
\* an existing table changes nothing, and a successful run appends exactly
\* the rows of its cleaned batch after the rows that were there.
C5_AppendOnly ==
    /\ table0.exists => table.exists /\ table.widths = table0.widths
    /\ IsPrefix(table0.rows, table.rows)
    /\ pc = "created" => table.exists /\ (table0.exists => table = table0)
    /\ Succeeded =>
          /\ table.rows = table0.rows \o StoreRows(df.rows, table.widths)
          /\ Len(table.rows) = Len(table0.rows) + Len(df.rows)

\* C5 (witness): the second successful load of the same two-row dataset
\* has left four rows
C5_TwiceWitness ==
    /\ run = 2 /\ Succeeded
    /\ Len(df.rows) = 2
    /\ table0.rows = df.rows
    /\ table.rows = df.rows \o df.rows

\* C6: the width of a text column with a non-null value is the least
\* integer >= 6 M / 5, M the longest value among the surviving rows, so
\* it is >= M.
C6_WidthIsCeil ==
    /\ pc \in {"transformed", "estimated"} =>
          \A c \in TextCols : Lengths(df.rows, c) # {} =>
                /\ _calc_max_length(df.rows, c).ok
                /\ _calc_max_length(df.rows, c).len = CeilSixFifths(MaxLen(df.rows, c))
    /\ pc = "estimated" =>
          \A c \in TextCols : widths[c] = CeilSixFifths(MaxLen(df.rows, c)) /\ widths[c] >= MaxLen(df.rows, c)

\* C6 (witness): lengths 3, 10 and 7 have given 12
C6_TwelveWitness ==
    /\ pc = "estimated"
    /\ Lengths(df.rows, "comments") = {3, 10, 7}
    /\ widths["comments"] = 12

\* C7 (as claimed): in every run, the widths of the table the batch is
\* appended to are >= the longest value of each text column of the batch.
C7_TableWidthsCoverBatch ==
    pc = "created" => \A c \in TextCols : table.widths[c] >= MaxLen(df.rows, c)

\* C7 (amended): the widths a run estimates are >= the longest value of
\* each text column of its batch; the table has them when that run
\* creates it, and a table that was there keeps the widths it has.
C7_EstimatedWidthsCoverBatch ==
    /\ pc \in {"estimated", "created"} => \A c \in TextCols : widths[c] >= MaxLen(df.rows, c)
    /\ pc = "created" => table.widths = IF table0.exists THEN table0.widths ELSE widths

\* C7 (witness): the run that creates the table for city values of three
\* characters
C7_CreatingRunWitness ==
    /\ pc = "created" /\ ~table0.exists
    /\ MaxLen(df.rows, "city") = 3
    /\ table.widths["city"] = 4

\* C8 (as claimed): every record of the cleaned output, and of the table,
\* has a value for datetime, date_posted, duration_seconds, latitude and
\* longitude.
C8_RetainedRecordsAreValidated ==
    /\ pc = "transformed" => \A i \in 1..Len(df.rows) : \A c \in Validated : ~IsNull(df.rows[i][c])
    /\ \A i \in 1..Len(table.rows) : \A c \in Validated : ~IsNull(table.rows[i][c])

\* C9 (as claimed): the reader's frame has the trimmed names and raw text
\* in every column, and a source with padded headers fares in the
\* transform as the same source with bare headers does.
C9_PaddedHeadersMakeNoDifference ==
    /\ pc = "extracted" => df.padded = {} /\ \A c \in NumCols : df.dtype[c] = "object"
    /\ FailedAt("transform") =>
          \A p \in SortOrders(file.rows) : ~_transform_csv(_extract_csv([file EXCEPT !.padded = {}]), p).ok

====
